---------------------------- MODULE Spec2Model ----------------------------
(***************************************************************************)
(* cargo-links (src/src/main.rs): the scan / dispatch / drain pipeline.    *)
(*                                                                         *)
(* The main thread walks the files, searches every file for the link      *)
(* pattern, and for every match counts the link, builds a Link and hands   *)
(* a job (verify, then send on the result channel) to a thread pool of     *)
(* opt.concurrency threads.  After the scan it drains n_links results from *)
(* the channel, reports each and exits 1 when a link was Unreachable.      *)
(***************************************************************************)
EXTENDS Naturals, Sequences, FiniteSets

VARIABLES
    walk,         \* what Walk::new("./") yields, in order (the input)
    concurrency,  \* opt.concurrency
    pc,           \* main thread: "start", "scan", "drain", "returned", "exited"
    main_result,  \* how main ended: "none", "Ok", "Exit", "Panic", "ErrSetup",
                  \* "ErrLog" (a logger call failed), "ErrIo" (search_path failed)
    fileIdx,      \* index in file_iter of the file the for loop is at
    searching,    \* TRUE while searcher.search_path runs on that file
    events,       \* what that search has still to do: the matches to visit,
                  \* up to the line (if any) the sink fails on
    n_links,      \* main.rs:71
    submitted,    \* history: the Links handed to pool.execute, in order
    queue,        \* jobs handed to pool.execute, not yet taken by a thread
    running,      \* jobs a pool thread is executing (inside link.verify)
    chan,         \* the result channel: Links sent, not yet received
    rx_alive,     \* FALSE once main has returned and dropped rx
    taken,        \* items rx.iter().take(n_links) has yielded
    drained,      \* history: the Links the drain received, in order
    n_bad_links,  \* main.rs:115
    log,          \* the logger calls that returned Ok, in order
    exit_code,    \* << c >> once the process exit code c is decided, else << >>
    send_failed,  \* TRUE once a worker's tx.send(link).unwrap() panicked
    sent          \* history: the Links sent on the channel, in order

vars == << walk, concurrency, pc, main_result, fileIdx, searching, events,
           n_links, submitted, queue, running, chan, rx_alive, taken, drained,
           n_bad_links, log, exit_code, send_failed, sent >>

-----------------------------------------------------------------------------
(* Bounds of the model. *)

MaxC == 2

MaxFiles == 3

MaxLineLen == 6

MaxFilesLive == 2

-----------------------------------------------------------------------------
(* Text.  A line is a sequence of characters; Invalid stands for a byte    *)
(* that is not valid UTF-8.                                                 *)

Invalid == "0xFF"

Alphabet == {"[", "]", "(", ")", "a"}

ValidUtf8(line) == \A i \in 1..Len(line) : line[i] # Invalid

(* The character classes of the pattern, r"\[[^\[\]]+\]\(([^\(\)]+)\)".    *)
(* A negated class matches any code point but the listed ones, so it does  *)
(* not match a byte that is not valid UTF-8.                                *)
LabelChar(ch) == ch # "[" /\ ch # "]" /\ ch # Invalid

TargetChar(ch) == ch # "(" /\ ch # ")" /\ ch # Invalid

\* [^\[\]]+ is greedy: the first offset >= j of line that is past the end or
\* holds no label character
RECURSIVE LabelStop(_, _)
LabelStop(line, j) ==
    IF j > Len(line) \/ ~LabelChar(line[j]) THEN j ELSE LabelStop(line, j + 1)

\* [^\(\)]+ is greedy: the first offset >= j of line that is past the end or
\* holds no target character
RECURSIVE TargetStop(_, _)
TargetStop(line, j) ==
    IF j > Len(line) \/ ~TargetChar(line[j]) THEN j ELSE TargetStop(line, j + 1)

NoMatch == [start |-> 0, g1s |-> 0, g1e |-> 0, end |-> 0]

\* The match of the pattern that starts at offset i of line (start = 0: none);
\* g1s..g1e is capture group 1, end the offset of the closing parenthesis.
MatchAt(line, i) ==
    IF i > Len(line) \/ line[i] # "["
    THEN NoMatch
    ELSE LET ls == LabelStop(line, i + 1) IN
         IF ls = i + 1 \/ ls + 1 > Len(line) \/ line[ls] # "]" \/ line[ls + 1] # "("
         THEN NoMatch
         ELSE LET ts == TargetStop(line, ls + 2) IN
              IF ts = ls + 2 \/ ts > Len(line) \/ line[ts] # ")"
              THEN NoMatch
              ELSE [start |-> i, g1s |-> ls + 2, g1e |-> ts - 1, end |-> ts]

\* captures_iter: the leftmost match starting at offset >= from
RECURSIVE FindFrom(_, _)
FindFrom(line, from) ==
    IF from > Len(line) THEN NoMatch
    ELSE IF MatchAt(line, from).start # 0 THEN MatchAt(line, from)
    ELSE FindFrom(line, from + 1)

CaptureGroupWholeMatch(m) == << m.start, m.end >>

\* c.get(1): the capture group the Link's target is cut from
CaptureGroup(m) == << m.g1s, m.g1e >>

\* line[m].to_string()
Raw(line, m) == SubSeq(line, CaptureGroup(m)[1], CaptureGroup(m)[2])

\* matcher.captures_iter on line number l: its matches from offset c on,
\* left to right, none overlapping
RECURSIVE CapturesIter(_, _, _)
CapturesIter(line, l, c) ==
    IF FindFrom(line, c).start = 0 THEN << >>
    ELSE << [kind |-> "match", line |-> l, m |-> FindFrom(line, c)] >>
         \o CapturesIter(line, l, FindFrom(line, c).end + 1)

\* searcher.search_path on the lines of a file, from line number l on: the
\* sink is called for every line that matches; it fails on one that is not
\* valid UTF-8, which ends the search, and else runs the closure on the line
RECURSIVE SearchPath(_, _)
SearchPath(lines, l) ==
    IF l > Len(lines) THEN << >>
    ELSE IF FindFrom(lines[l], 1).start = 0 THEN SearchPath(lines, l + 1)
    ELSE IF ~ValidUtf8(lines[l]) THEN << [kind |-> "err", line |-> l, m |-> NoMatch] >>
    ELSE CapturesIter(lines[l], l, 1) \o SearchPath(lines, l + 1)

-----------------------------------------------------------------------------
(* The input: what the tree walker yields.  An entry is a regular file, a  *)
(* directory or a traversal error; a file has a path and its extension,    *)
(* whether the path is valid unicode, whether it can be opened, and its    *)
(* lines; found is what searching the file does (SearchPath of its lines), *)
(* kept with the file so that it is computed once.                          *)

L_link == << "[", "a", "]", "(", "a", ")" >>

L_two == << "[", "a", "]", "(", " ", "a", ")", "[", "(", "]", "(", "]", "a", ")" >>

L_text == << "a", "a" >>

L_inv_match == << "[", "a", "]", "(", "a", ")", Invalid >>

L_inv_nomatch == << Invalid, "[", "a", "]", "(", Invalid, ")" >>

WalkEntry(kind, path, ext, path_ok, readable, lines) ==
    [kind |-> kind, path |-> path, ext |-> ext, path_ok |-> path_ok,
     readable |-> readable, lines |-> lines, found |-> SearchPath(lines, 1)]

WalkCatalogue ==
    { WalkEntry("file", "one.md",   "md",  TRUE,  TRUE,  << L_link >>),
      WalkEntry("file", "two.rs",   "rs",  TRUE,  TRUE,
                << L_text, L_two, L_inv_nomatch >>),
      WalkEntry("file", "inv.md",   "md",  TRUE,  TRUE,  << L_inv_match, L_link >>),
      WalkEntry("file", "bad.md",   "md",  FALSE, TRUE,  << L_link >>),
      WalkEntry("file", "gone.md",  "md",  TRUE,  FALSE, << >>),
      WalkEntry("file", "note.txt", "txt", TRUE,  TRUE,  << L_link >>),
      WalkEntry("dir",  "docs.md",  "md",  TRUE,  FALSE, << >>),
      WalkEntry("err",  "denied",   "md",  TRUE,  FALSE, << >>) }

\* the sequences of at most n distinct entries
Walks(n) ==
    UNION { {t \in [1..k -> WalkCatalogue] :
                \A i, j \in 1..k : i # j => t[i].path # t[j].path} : k \in 0..n }

-----------------------------------------------------------------------------
(* Collaborators whose code is not in main.rs.                              *)

\* link.rs, Link::new: the Link as constructed, its status absent (id is not
\* a field of the Link: it numbers the Links in the order of construction)
LinkNew(id, path, line_number, raw) ==
    [id |-> id, source_path |-> path, line_number |-> line_number,
     target |-> raw, status |-> "None"]

\* link.rs, LinkStatus: the outcomes verify can store
LinkStatus == {"Reachable", "Questionable", "Unreachable"}

\* link.rs, Link::verify: stores the outcome s in the Link's status
Verify(link, s) == [link EXCEPT !.status = s]

\* log.rs: a logger call returns a Result
LoggerResult == {"Ok", "Err"}

-----------------------------------------------------------------------------
(* main.rs                                                                  *)

\* glob_set.is_match(p): *.rs and *.md
GlobMatch(e) == e.ext \in {"rs", "md"}

FileIterKeepErrors(w) ==
    SelectSeq(w, LAMBDA e : e.kind # "dir" /\ GlobMatch(e))

\* file_iter: traversal errors dropped, regular files only, globs applied
FileIter(w) ==
    SelectSeq(w, LAMBDA e : e.kind # "err" /\ e.kind = "file" /\ GlobMatch(e))

file_iter == FileIter(walk)

PathToStrLossy(f) == TRUE

\* path.to_str() is Some: the path is valid unicode
PathToStr(f) == f.path_ok

PoolThreadsOneMore(c) == c + 1

\* ThreadPool::new(opt.concurrency): the number of pool threads
PoolThreads(c) == c

CountLinkNever(n) == n

CountLinkTwice(n) == n + 2

\* n_links += 1
CountLink(n) == n + 1

ExecuteWhenThreadFree(q, r, c) == Len(q) = 0 /\ Cardinality(r) < c

\* pool.execute(job): the job goes on the pool's unbounded job queue and the
\* call returns, whatever the threads are doing
ExecuteReturns(q, r, c) == TRUE

TakeOneMore(n) == n + 1

TakeOneLess(n) == IF n > 1 THEN n - 1 ELSE n

\* rx.iter().take(n_links): how many items the drain takes
Take(n) == n

SendWhenEmpty(c) == Len(c) = 0

\* tx.send(link) on the channel of channel(): unbounded, the call returns
\* however many Links are waiting
SendReturns(c) == TRUE

JobClosureNoVerify(link, s) == link

\* the job closure: link.verify(http_client), and the Link it then sends
JobClosure(link, s) == Verify(link, s)

RxNextNewest(c) == c[Len(c)]

RxNextLowestId(c) ==
    c[CHOOSE i \in DOMAIN c : \A j \in DOMAIN c : c[i].id <= c[j].id]

\* rx.iter(): the next item is the oldest Link in the channel
RxNext(c) == Head(c)

\* the level of the line the drain reports for a Link
ReportLevel(status) ==
    CASE status = "Reachable"    -> "info"
      [] status = "Questionable" -> "warn"
      [] status = "Unreachable"  -> "error"

CountBadQuestionable(n, status) == IF status # "Reachable" THEN n + 1 ELSE n

\* n_bad_links += 1 in the Unreachable arm only
CountBad(n, status) == IF status = "Unreachable" THEN n + 1 ELSE n

FinalResultAboveOne(bad) == IF bad > 1 THEN "Exit" ELSE "Ok"

\* if n_bad_links > 0 { ...; std::process::exit(1) } Ok(())
FinalResult(bad) == IF bad > 0 THEN "Exit" ELSE "Ok"

\* the process exit code for each way main ends: exit(1), Ok(()), a panic
\* of the main thread, Err(ExitFailure)
CodeOf(result) ==
    CASE result = "Ok"    -> 0
      [] result = "Exit"  -> 1
      [] result = "Panic" -> 101
      [] OTHER            -> 1

Entry(level, msg, ref) == [level |-> level, msg |-> msg, ref |-> ref]

InitRest ==
    /\ main_result = "none"
    /\ fileIdx = 1
    /\ searching = FALSE
    /\ events = << >>
    /\ n_links = 0
    /\ submitted = << >>
    /\ queue = << >>
    /\ running = {}
    /\ chan = << >>
    /\ rx_alive = TRUE
    /\ taken = 0
    /\ drained = << >>
    /\ n_bad_links = 0
    /\ exit_code = << >>
    /\ send_failed = FALSE
    /\ sent = << >>

Init ==
    /\ walk \in Walks(MaxFiles)
    /\ concurrency \in 1..MaxC
    /\ pc = "start"
    /\ log = << >>
    /\ InitRest

scanVars == << fileIdx, searching, events, n_links, submitted >>
poolVars == << queue, running, chan, send_failed, sent >>
drainVars == << taken, drained, n_bad_links >>
endVars == << pc, main_result, rx_alive, exit_code >>

\* main returns (Ok or Err): its locals, rx among them, are dropped, and the
\* runtime then exits the process
Return(result) ==
    /\ pc' = "returned"
    /\ main_result' = result
    /\ rx_alive' = FALSE
    /\ exit_code' = << CodeOf(result) >>

\* the process ends at once: std::process::exit, or a panic of the main thread
Exit(result) ==
    /\ pc' = "exited"
    /\ main_result' = result
    /\ exit_code' = << CodeOf(result) >>
    /\ UNCHANGED rx_alive

\* main.rs:41-71: options, logger, matcher, pool, channel, client, globs
Setup ==
    /\ pc = "start"
    /\ \/ /\ pc' = "scan"
          /\ log' = Append(log, Entry("debug", "opt", 0))
          /\ UNCHANGED << main_result, rx_alive, exit_code >>
       \/ /\ Exit("ErrSetup")
          /\ UNCHANGED log
    /\ UNCHANGED << walk, concurrency, scanVars, poolVars, drainVars >>

\* main.rs:72-83: a path that is not valid unicode is skipped with a warning
SkipFile ==
    /\ pc = "scan" /\ ~searching /\ fileIdx <= Len(file_iter)
    /\ ~PathToStr(file_iter[fileIdx])
    /\ \E r \in LoggerResult :
         \/ /\ r = "Ok"
            /\ log' = Append(log, Entry("warn", "skip", fileIdx))
            /\ fileIdx' = fileIdx + 1
            /\ UNCHANGED endVars
         \/ /\ r = "Err"
            /\ Return("ErrLog")
            /\ UNCHANGED << log, fileIdx >>
    /\ UNCHANGED << walk, concurrency, searching, events, n_links,
                    submitted, poolVars, drainVars >>

\* main.rs:84-88: the debug line, then search_path opens the file
OpenFile ==
    /\ pc = "scan" /\ ~searching /\ fileIdx <= Len(file_iter)
    /\ PathToStr(file_iter[fileIdx])
    /\ \E r \in LoggerResult :
         \/ /\ r = "Ok" /\ file_iter[fileIdx].readable
            /\ log' = Append(log, Entry("debug", "searching", fileIdx))
            /\ searching' = TRUE
            /\ events' = file_iter[fileIdx].found
            /\ UNCHANGED endVars
         \/ /\ r = "Ok" /\ ~file_iter[fileIdx].readable
            /\ log' = Append(log, Entry("debug", "searching", fileIdx))
            /\ Return("ErrIo")
            /\ UNCHANGED << searching, events >>
         \/ /\ r = "Err"
            /\ Return("ErrLog")
            /\ UNCHANGED << log, searching, events >>
    /\ UNCHANGED << walk, concurrency, fileIdx, n_links, submitted, poolVars,
                    drainVars >>

\* main.rs:93-107: one match: count it, build the Link, hand the job to the pool
Submit ==
    /\ pc = "scan" /\ searching
    /\ events # << >> /\ Head(events).kind = "match"
    /\ ExecuteReturns(queue, running, concurrency)
    /\ LET f == file_iter[fileIdx]
           ev == Head(events)
           link == LinkNew(Len(submitted) + 1, f.path, ev.line,
                           Raw(f.lines[ev.line], ev.m)) IN
       /\ n_links' = CountLink(n_links)
       /\ queue' = Append(queue, link)
       /\ submitted' = Append(submitted, link)
       /\ events' = Tail(events)
    /\ UNCHANGED << walk, concurrency, endVars, fileIdx, searching, running,
                    chan, drainVars, log, send_failed, sent >>

\* main.rs:88-112: search_path returns Err and the ? returns it from main
SearchFail ==
    /\ pc = "scan" /\ searching
    /\ events # << >> /\ Head(events).kind = "err"
    /\ Return("ErrIo")
    /\ UNCHANGED << walk, concurrency, scanVars, poolVars, drainVars, log >>

\* main.rs:88-113: search_path returns Ok, the loop goes to the next file
EndFile ==
    /\ pc = "scan" /\ searching
    /\ events = << >>
    /\ searching' = FALSE
    /\ fileIdx' = fileIdx + 1
    /\ UNCHANGED << walk, concurrency, endVars, events, n_links, submitted,
                    poolVars, drainVars, log >>

\* main.rs:113-116: file_iter is exhausted, the drain begins
ScanDone ==
    /\ pc = "scan" /\ ~searching /\ fileIdx > Len(file_iter)
    /\ pc' = "drain"
    /\ n_bad_links' = 0
    /\ UNCHANGED << walk, concurrency, main_result, rx_alive, exit_code,
                    scanVars, poolVars, taken, drained, log >>

MainSendersNone(p) == 0

\* let (tx, rx) = channel(): main owns tx until it returns
MainSenders(p) == IF p \in {"returned", "exited"} THEN 0 ELSE 1

\* the senders alive: main's tx and the clone each unfinished job owns
SenderCount == MainSenders(pc) + Len(queue) + Cardinality(running)

\* rx.iter() ends (next() returns None) when the channel is empty and no
\* sender is left
Disconnected == chan = << >> /\ SenderCount = 0

\* the threads of the pool run as long as the process does
Alive == pc # "exited"

\* a free pool thread takes the oldest queued job and enters link.verify
JobStart ==
    /\ Alive
    /\ queue # << >>
    /\ Cardinality(running) < PoolThreads(concurrency)
    /\ running' = running \cup {Head(queue)}
    /\ queue' = Tail(queue)
    /\ UNCHANGED << walk, concurrency, endVars, scanVars, chan, drainVars,
                    log, send_failed, sent >>

\* main.rs:103-104: verify returns and the job sends the Link; the send
\* fails, and unwrap panics, when the receiver is gone
JobFinish ==
    /\ Alive
    /\ \E link \in running : \E s \in LinkStatus :
         /\ running' = running \ {link}
         /\ IF rx_alive
            THEN /\ SendReturns(chan)
                 /\ chan' = Append(chan, JobClosure(link, s))
                 /\ sent' = Append(sent, JobClosure(link, s))
                 /\ UNCHANGED send_failed
            ELSE /\ send_failed' = TRUE
                 /\ UNCHANGED << chan, sent >>
    /\ UNCHANGED << walk, concurrency, endVars, scanVars, queue, drainVars, log >>

\* main.rs:116-131: one iteration of the drain: receive a Link, report it
Recv ==
    /\ pc = "drain"
    /\ taken < Take(n_links)
    /\ chan # << >>
    /\ LET link == RxNext(chan) IN
       /\ chan' = SelectSeq(chan, LAMBDA x : x.id # link.id)
       /\ taken' = taken + 1
       /\ drained' = Append(drained, link)
       /\ IF link.status = "None"
          THEN /\ Exit("Panic")
               /\ UNCHANGED << n_bad_links, log >>
          ELSE /\ n_bad_links' = CountBad(n_bad_links, link.status)
               /\ \E r \in LoggerResult :
                    \/ /\ r = "Ok"
                       /\ log' = Append(log, Entry(ReportLevel(link.status),
                                                   "link", link.id))
                       /\ UNCHANGED endVars
                    \/ /\ r = "Err"
                       /\ Return("ErrLog")
                       /\ UNCHANGED log
    /\ UNCHANGED << walk, concurrency, scanVars, queue, running,
                    send_failed, sent >>

\* main.rs:116, 134-139: the drain loop ends, having taken n_links items or
\* found the channel disconnected
DrainDone ==
    /\ pc = "drain"
    /\ taken >= Take(n_links) \/ Disconnected
    /\ \/ /\ FinalResult(n_bad_links) = "Exit"
          /\ \E r \in LoggerResult :
               \/ /\ r = "Ok"
                  /\ log' = Append(log, Entry("error", "found_bad", n_bad_links))
                  /\ Exit("Exit")
               \/ /\ r = "Err"
                  /\ Return("ErrLog")
                  /\ UNCHANGED log
       \/ /\ FinalResult(n_bad_links) = "Ok"
          /\ Return("Ok")
          /\ UNCHANGED log
    /\ UNCHANGED << walk, concurrency, scanVars, poolVars, drainVars >>

\* after main has returned the runtime exits the process
ProcessExit ==
    /\ pc = "returned"
    /\ pc' = "exited"
    /\ UNCHANGED << walk, concurrency, main_result, rx_alive, exit_code,
                    scanVars, poolVars, drainVars, log >>

MainThread ==
    \/ Setup \/ SkipFile \/ OpenFile \/ Submit \/ SearchFail \/ EndFile
    \/ ScanDone \/ Recv \/ DrainDone \/ ProcessExit

Workers == JobStart \/ JobFinish

Next == MainThread \/ Workers

Spec == Init /\ [][Next]_vars

\* the inputs of the runs whose termination is examined
InitLive ==
    /\ walk \in Walks(MaxFilesLive)
    /\ concurrency \in 1..MaxC
    /\ pc = "start"
    /\ log = << >>
    /\ InitRest

\* every thread that can run does run
FairSpec ==
    InitLive /\ [][Next]_vars /\ WF_vars(MainThread) /\ WF_vars(Workers)

\* the main thread is scheduled; nothing is assumed of the pool threads
ScanFairSpec == InitLive /\ [][Next]_vars /\ WF_vars(MainThread)

\* a job ends inside link.verify without sending: the closure unwinds, its
\* tx is dropped, the pool thread is replaced
JobPanic ==
    /\ Alive
    /\ \E link \in running : running' = running \ {link}
    /\ UNCHANGED << walk, concurrency, endVars, scanVars, queue, chan,
                    send_failed, sent, drainVars, log >>

NextFail == Next \/ JobPanic

\* the runs in which jobs can end without sending
SpecFail == InitLive /\ [][NextFail]_vars

(* The scan alone, after the setup, on one file: a link, then any line of   *)
(* at most MaxLineLen characters (or one of the lines above), then a link.  *)

Lines(n) == UNION { [1..k -> Alphabet] : k \in 0..n }

ScanLines == Lines(MaxLineLen) \cup {L_two, L_inv_match, L_inv_nomatch}

InitScan ==
    /\ \E line \in ScanLines :
          walk = << WalkEntry("file", "scan.md", "md", TRUE, TRUE,
                              << L_link, line, L_link >>) >>
    /\ concurrency = 1
    /\ pc = "scan"
    /\ log = << Entry("debug", "opt", 0) >>
    /\ InitRest

NextScan == OpenFile \/ Submit \/ SearchFail \/ EndFile \/ ScanDone

SpecScan == InitScan /\ [][NextScan]_vars

-----------------------------------------------------------------------------
(* Properties.                                                              *)

Ids(seq) == {seq[i].id : i \in DOMAIN seq}

Count(seq, id) == Cardinality({i \in DOMAIN seq : seq[i].id = id})

\* the drain loop has taken its last item: main is past main.rs:132
DrainEnded == ENABLED DrainDone \/ main_result \in {"Ok", "Exit"}

(* C1: when the drain ends, the Aggregator has received as many results as  *)
(* the Scanner constructed Links, and every submitted Link exactly once.    *)
C1_DrainedEqualsConstructed ==
    DrainEnded =>
        /\ Len(drained) = Len(submitted)
        /\ \A i \in DOMAIN submitted : Count(drained, submitted[i].id) = 1
        /\ Ids(drained) = Ids(submitted)

C1_Witness ==
    /\ DrainEnded
    /\ Len(drained) = 3
    /\ concurrency = 2
    /\ drained[1].id # 1

(* C2: at most opt.concurrency jobs are inside link.verify at any time; a   *)
(* job submitted while that many are executing is put in the queue, and a   *)
(* queued job starts only when a pool thread is free.                       *)
C2_ConcurrencyBound ==
    /\ [](Cardinality(running) <= concurrency)
    /\ [][ /\ (Len(submitted') > Len(submitted)
              /\ Cardinality(running) = concurrency)
                => (running' = running
                    /\ queue' = Append(queue, submitted'[Len(submitted')]))
           /\ (running' \ running # {})
                => (Cardinality(running) < concurrency
                    /\ queue # << >>
                    /\ running' = running \cup {Head(queue)}) ]_vars

C2_Witness ==
    /\ concurrency = 2
    /\ Cardinality(running) = concurrency
    /\ Len(queue) >= 1
    /\ pc = "scan"

Range(seq) == {seq[i] : i \in DOMAIN seq}

Unreachables(seq) == {i \in DOMAIN seq : seq[i].status = "Unreachable"}

Questionables(seq) == {i \in DOMAIN seq : seq[i].status = "Questionable"}

\* the lines the drain reported, in order
Reported == SelectSeq(log, LAMBDA e : e.msg = "link")

LinesOf(id) == {i \in DOMAIN Reported : Reported[i].ref = id}

\* main ended on a fatal error
Aborted == main_result \in {"ErrSetup", "ErrLog", "ErrIo"}

(* C3 as stated: the process exit code is 0 whenever no drained result is   *)
(* Unreachable, and 1 whenever one is.  Stated here only for the runs that  *)
(* got past the setup and in which no logger call failed.                   *)
C3_ExitCodeFollowsDrained ==
    (pc = "exited" /\ main_result \notin {"ErrSetup", "ErrLog"}) =>
        exit_code = IF Unreachables(drained) = {} THEN << 0 >> ELSE << 1 >>

(* C3 as amended: a run that reaches the end of the drain exits 0 when no   *)
(* drained result is Unreachable, however many are Questionable, and 1      *)
(* when one is; a run that a fatal error ends exits 1 whatever was drained. *)
C3_ExitCodeAfterDrain ==
    pc = "exited" =>
        /\ main_result \in {"Ok", "Exit"} =>
              /\ Len(drained) = n_links
              /\ exit_code = IF Unreachables(drained) = {} THEN << 0 >> ELSE << 1 >>
        /\ Aborted => exit_code = << 1 >>
        /\ main_result \in {"Ok", "Exit"} \/ Aborted

C3_Witness ==
    /\ pc = "exited"
    /\ main_result = "Ok"
    /\ Cardinality(Questionables(drained)) >= 2
    /\ exit_code = << 0 >>

(* C4 as stated: when the process has exited, every Link the Scanner        *)
(* discovered has exactly one reported line.  Stated here only for the runs *)
(* that got past the setup and in which no logger call failed.              *)
C4_EveryLinkReported ==
    (pc = "exited" /\ main_result \notin {"ErrSetup", "ErrLog"}) =>
        \A i \in DOMAIN submitted : Cardinality(LinesOf(submitted[i].id)) = 1

(* C4 as amended: no Link ever has more than one reported line, each line   *)
(* has the level of the Link's status, and in a run that reaches the end of *)
(* the drain without a fatal error every discovered Link has exactly one.   *)
C4_EveryLinkReportedAfterDrain ==
    /\ \A i \in DOMAIN submitted : Cardinality(LinesOf(submitted[i].id)) <= 1
    /\ \A k \in DOMAIN Reported :
          \E j \in DOMAIN drained :
              /\ drained[j].id = Reported[k].ref
              /\ Reported[k].level = ReportLevel(drained[j].status)
    /\ main_result \in {"Ok", "Exit"} =>
          \A i \in DOMAIN submitted : Cardinality(LinesOf(submitted[i].id)) = 1

C4_Witness ==
    /\ pc = "exited"
    /\ main_result = "Exit"
    /\ Len(submitted) = 3
    /\ Questionables(drained) # {}
    /\ Cardinality(Unreachables(drained)) = 1
    /\ Len(Reported) = 3

(* C5: a Link's status is absent until its job has verified it; the job     *)
(* verifies it once and then sends it once; every Link in the channel or    *)
(* received by the drain has a status, the one it was sent with, and the    *)
(* status read at main.rs:117 is never absent.                              *)
C5_StatusSetOnce ==
    /\ \A i \in DOMAIN queue : queue[i].status = "None"
    /\ \A l \in running : l.status = "None"
    /\ \A i \in DOMAIN sent :
          /\ sent[i].status \in LinkStatus
          /\ Count(sent, sent[i].id) = 1
          /\ sent[i].id \in DOMAIN submitted
          /\ [sent[i] EXCEPT !.status = "None"] = submitted[sent[i].id]
    /\ \A l \in Range(chan) \cup Range(drained) : l \in Range(sent)
    /\ \A l \in Range(chan) : Count(drained, l.id) = 0 /\ Count(chan, l.id) = 1
    /\ \A l \in Range(drained) : Count(drained, l.id) = 1
    /\ main_result # "Panic"

C5_Witness ==
    /\ Len(drained) = 2
    /\ Len(chan) = 1
    /\ {drained[1].status, drained[2].status, chan[1].status} = LinkStatus

(* C6 as stated: the Aggregator reports the Links in the order in which     *)
(* they were submitted, whatever the order in which the jobs complete.      *)
C6_ReportedInSubmissionOrder ==
    \A i, j \in DOMAIN Reported : i < j => Reported[i].ref < Reported[j].ref

(* C6 as amended: the Aggregator reports the Links in the order in which    *)
(* the jobs sent them on the result channel.                                *)
C6_ReportedInArrivalOrder ==
    /\ Len(drained) <= Len(sent)
    /\ \A i \in DOMAIN drained : drained[i] = sent[i]
    /\ Len(Reported) <= Len(drained)
    /\ \A i \in DOMAIN Reported : Reported[i].ref = drained[i].id

C6_Witness ==
    /\ Len(Reported) = 3
    /\ Reported[1].ref = 2
    /\ Reported[2].ref = 3
    /\ Reported[3].ref = 1

(* C7 as stated: a fatal error (arguments, traversal, matcher) ends the run *)
(* before scanning begins: none ends it after a job has been submitted.     *)
C7_FatalOnlyBeforeScan ==
    main_result \in {"ErrSetup", "ErrIo"} => Len(submitted) = 0

\* a line of f that matches the pattern and is not valid UTF-8
HasBadMatchedLine(f) ==
    \E l \in DOMAIN f.lines :
        FindFrom(f.lines[l], 1).start # 0 /\ ~ValidUtf8(f.lines[l])

(* C7 as amended: a failure of the setup ends the run before scanning       *)
(* begins; a traversal error of the walker never ends the run; a file that  *)
(* cannot be opened or searched ends it during the scan, at that file,      *)
(* whatever was submitted before.                                           *)
C7_FatalSetupBeforeScan ==
    /\ main_result = "ErrSetup" =>
          Len(submitted) = 0 /\ fileIdx = 1 /\ ~searching /\ log = << >>
    /\ main_result = "ErrIo" =>
          /\ fileIdx \in DOMAIN file_iter
          /\ file_iter[fileIdx].kind = "file"
          /\ ~file_iter[fileIdx].readable \/ HasBadMatchedLine(file_iter[fileIdx])
          /\ Len(drained) = 0

C7_Witness ==
    /\ main_result = "ErrIo"
    /\ Len(submitted) >= 1
    /\ \E i \in DOMAIN walk : walk[i].kind = "err"
    /\ ~file_iter[fileIdx].readable

(* C8: a line that cannot be matched is skipped and never ends the run: a   *)
(* search never fails at a file that could be opened.                       *)
C8_BadLineSkipped ==
    main_result = "ErrIo" => ~file_iter[fileIdx].readable

\* [label](target) at offsets i..k of line: "[" at i, "]" at j, "(" next to
\* it, ")" at k, between them a label of characters other than brackets and
\* a target of characters other than parentheses, neither empty
Occurrence(line, i, j, k) ==
    /\ 1 <= i /\ i + 1 < j /\ j + 2 < k /\ k <= Len(line)
    /\ line[i] = "[" /\ line[j] = "]" /\ line[j + 1] = "(" /\ line[k] = ")"
    /\ \A x \in (i + 1)..(j - 1) : line[x] \notin {"[", "]", Invalid}
    /\ \A x \in (j + 2)..(k - 1) : line[x] \notin {"(", ")", Invalid}

\* the positions of ch in line
Positions(line, ch) == {x \in 1..Len(line) : line[x] = ch}

Occurrences(line) ==
    {o \in Positions(line, "[") \X Positions(line, "]") \X Positions(line, ")") :
        Occurrence(line, o[1], o[2], o[3])}

TargetOf(line, o) == SubSeq(line, o[2] + 2, o[3] - 1)

LinksAt(l, target) ==
    {i \in DOMAIN submitted :
        submitted[i].line_number = l /\ submitted[i].target = target}

\* the for loop over file_iter has ended
ScanFinished == fileIdx > Len(file_iter) /\ ~searching

\* the search of the first file has got past its line l
LinePassed(l) ==
    \/ fileIdx > 1
    \/ fileIdx = 1 /\ searching /\ events = << >>
    \/ fileIdx = 1 /\ searching /\ events # << >> /\ Head(events).line > l

(* C9: every Link constructed comes from an occurrence of [label](target)   *)
(* in a line of the file: its target is the text between the parentheses,  *)
(* unchanged, its line_number the 1-based number of the line, its          *)
(* source_path the path of the file; and every line the search has got     *)
(* past has given one Link per occurrence: k Links for k occurrences, none *)
(* for none, and as many Links of each target as occurrences of it.        *)
C9_OneLinkPerOccurrence ==
    LET f == file_iter[1] IN
    /\ \A i \in DOMAIN submitted :
          LET link == submitted[i] IN
          /\ link.source_path = f.path
          /\ link.line_number \in DOMAIN f.lines
          /\ \E o \in Occurrences(f.lines[link.line_number]) :
                link.target = TargetOf(f.lines[link.line_number], o)
    /\ n_links = Len(submitted)
    /\ \A l \in DOMAIN f.lines :
          LinePassed(l) =>
              LET occ == Occurrences(f.lines[l]) IN
              /\ Cardinality({i \in DOMAIN submitted : submitted[i].line_number = l})
                    = Cardinality(occ)
              /\ \A o \in occ :
                    Cardinality(LinksAt(l, TargetOf(f.lines[l], o)))
                      = Cardinality({q \in occ :
                                       TargetOf(f.lines[l], q) = TargetOf(f.lines[l], o)})

C9_Witness ==
    /\ ScanFinished
    /\ file_iter[1].lines[2] = L_two
    /\ Len(submitted) = 4
    /\ submitted[1].line_number = 1
    /\ submitted[2].target = << " ", "a" >>
    /\ submitted[3].target = << "]", "a" >>
    /\ submitted[3].line_number = 2
    /\ submitted[4].line_number = 3

(* C10 as stated: when the scan has finished and every job has sent its     *)
(* Link, the Aggregator receives all n_links results before the process     *)
(* exits.                                                                   *)
C10_AllReceivedBeforeExit ==
    (pc = "exited" /\ ScanFinished /\ Len(sent) = Len(submitted)) =>
        Len(drained) = n_links

(* C10 as amended: under fair scheduling the process always exits, and once *)
(* the drain has begun it ends with all n_links results received unless a   *)
(* logger call fails; the drain never takes more than n_links items, and    *)
(* with n_links = 0 it receives nothing and is over at once.                *)
C10_DrainTerminates ==
    /\ <>(pc = "exited")
    /\ (pc = "drain") ~>
          (pc = "exited" /\ (main_result = "ErrLog" \/ Len(drained) = n_links))
    /\ [](taken <= n_links /\ Len(drained) = taken)
    /\ []((pc = "drain" /\ taken = n_links) => (ENABLED DrainDone /\ ~ENABLED Recv))

C10_Witness ==
    /\ pc = "exited"
    /\ main_result = "Ok"
    /\ n_links = 3
    /\ Len(drained) = 3
    /\ concurrency = 1

\* while rx is alive: the Links whose job has ended without sending
Lost ==
    {l \in Range(submitted) :
        l.id \notin Ids(queue) \cup {r.id : r \in running} \cup Ids(sent)}

(* C11: when a job has ended without sending its Link, the drain never      *)
(* completes: the loop does not end with fewer than n_links results, the    *)
(* channel is not disconnected while main holds tx, and once everything     *)
(* that was sent is received the main thread is blocked for ever.           *)
C11_LostJobBlocksDrain ==
    /\ (pc = "drain" /\ Lost # {}) => (~ENABLED DrainDone /\ ~Disconnected)
    /\ main_result \in {"Ok", "Exit"} => Len(drained) = n_links
    /\ (pc = "drain" /\ Lost # {} /\ queue = << >> /\ running = {} /\ chan = << >>)
          => ~ENABLED NextFail

C11_Witness ==
    /\ pc = "drain"
    /\ Lost # {}
    /\ queue = << >> /\ running = {} /\ chan = << >>
    /\ taken >= 1
    /\ taken < n_links

\* the matches in the first k files of file_iter that have a valid path
RECURSIVE TotalMatches(_)
TotalMatches(k) ==
    IF k = 0 THEN 0
    ELSE TotalMatches(k - 1)
         + (IF file_iter[k].path_ok THEN Len(file_iter[k].found) ELSE 0)

\* the matches the search of the current file has visited
Visited == IF searching THEN Len(file_iter[fileIdx].found) - Len(events) ELSE 0

(* C12: n_links counts the matches visited so far, one for one; it changes  *)
(* only in the step of the scan that visits a match, by exactly one, in the *)
(* step that hands the job of that match to the pool, so it is never less   *)
(* than the number of jobs submitted; when the scan has ended it is the     *)
(* number of jobs submitted, and the drain that completes has taken that    *)
(* many items.                                                              *)
C12_CountedOncePerMatch ==
    /\ [](/\ n_links = TotalMatches(fileIdx - 1) + Visited
          /\ n_links >= Len(submitted)
          /\ ScanFinished => n_links = Len(submitted)
          /\ main_result \in {"Ok", "Exit"} => taken = n_links)
    /\ [][n_links' # n_links =>
            /\ pc = "scan" /\ searching /\ Head(events).kind = "match"
            /\ n_links' = n_links + 1
            /\ events' = Tail(events)
            /\ Len(submitted') = Len(submitted) + 1
            /\ queue' = Append(queue, submitted'[Len(submitted')])]_vars
    /\ [][(events' # events /\ searching /\ searching') =>
            n_links' = n_links + 1]_vars
    /\ [][submitted' # submitted => n_links' = Len(submitted')]_vars

C12_Witness ==
    /\ main_result = "Ok"
    /\ Len(file_iter) = 3
    /\ n_links = 3
    /\ taken = 3
    /\ Len(submitted) = 3

\* a step of the for loop over file_iter
ScanStep == SkipFile \/ NextScan

(* C13: the scan never waits for the pool: during the scan the main thread  *)
(* always has a step to take, a match is submitted whatever the number of   *)
(* busy threads and of queued jobs, a submission only adds the job to the   *)
(* queue, and when the main thread is scheduled the scan ends, also in the  *)
(* runs in which no job ever starts or finishes.                            *)
C13_ScanNeverWaits ==
    /\ [](pc = "scan" => ENABLED ScanStep)
    /\ []((pc = "scan" /\ searching /\ events # << >>
              /\ Head(events).kind = "match") => ENABLED Submit)
    /\ [][submitted' # submitted =>
            (Len(queue') = Len(queue) + 1 /\ running' = running /\ chan' = chan)]_vars
    /\ (pc = "scan") ~> (pc # "scan")
    /\ (pc = "scan" /\ sent = << >>) ~> (pc # "scan" \/ sent # << >>)

C13_Witness ==
    /\ pc = "drain"
    /\ n_links = 3
    /\ sent = << >>
    /\ Cardinality(running) = concurrency
    /\ Len(queue) = 3 - concurrency
    /\ concurrency = 1

(* C14: a job's send puts its Link at the end of the channel, the drain     *)
(* always receives the Link that has been in the channel longest, and it    *)
(* reports a Link in the step that receives it: the k-th reported line is   *)
(* for the k-th Link sent, whatever the order of submission.                *)
C14_DrainFollowsChannel ==
    /\ [][chan' # chan =>
            \/ /\ Len(sent') = Len(sent) + 1
               /\ chan' = Append(chan, sent'[Len(sent')])
               /\ drained' = drained
            \/ /\ chan # << >>
               /\ chan' = Tail(chan)
               /\ drained' = Append(drained, Head(chan))
               /\ sent' = sent]_vars
    /\ [][Reported' # Reported =>
            /\ drained' # drained
            /\ Reported' = Append(Reported, Entry(ReportLevel(Head(chan).status),
                                                  "link", Head(chan).id))]_vars
    /\ [](\A k \in DOMAIN Reported : Reported[k].ref = sent[k].id)

C14_Witness ==
    /\ concurrency = 2
    /\ n_links = 2
    /\ main_result \in {"Ok", "Exit"}
    /\ Len(Reported) = 2
    /\ Reported[1].ref = 2
    /\ Reported[2].ref = 1

\* the aggregate failure lines reported
Summary == SelectSeq(log, LAMBDA e : e.msg = "found_bad")

(* C15: n_bad_links is the number of drained results that are Unreachable:  *)
(* a receive adds one to it when the result is Unreachable and leaves it    *)
(* when the result is Reachable or Questionable, and nothing else changes   *)
(* it.  When the drain has ended, the aggregate failure line is reported    *)
(* exactly when n_bad_links > 0 (the run then ends with that line, or on    *)
(* the failure of the logger call that reports it), it is the last line and *)
(* gives n_bad_links; with n_bad_links = 0 no such line is reported.        *)
C15_BadLinkCounter ==
    /\ [](/\ n_bad_links = Cardinality(Unreachables(drained))
          /\ Len(Summary) <= 1
          /\ Summary # << >> =>
                /\ n_bad_links > 0
                /\ Summary[1] = Entry("error", "found_bad", n_bad_links)
                /\ log[Len(log)] = Summary[1]
                /\ Len(drained) = n_links
                /\ main_result = "Exit"
          /\ main_result = "Exit" => Summary # << >>
          /\ main_result = "Ok" => (n_bad_links = 0 /\ Summary = << >>))
    /\ [][drained' # drained =>
            n_bad_links' = IF Head(chan).status = "Unreachable"
                           THEN n_bad_links + 1 ELSE n_bad_links]_vars
    /\ [][n_bad_links' # n_bad_links => drained' # drained]_vars
    /\ [][(pc = "drain" /\ pc' # "drain" /\ taken = n_links) =>
            IF n_bad_links > 0
            THEN \/ main_result' = "Exit" /\ Summary' # << >>
                 \/ main_result' = "ErrLog" /\ log' = log
            ELSE main_result' = "Ok" /\ log' = log]_vars

C15_Witness ==
    /\ main_result = "Exit"
    /\ Len(drained) = 3
    /\ n_bad_links = 2
    /\ Cardinality(Questionables(drained)) = 1
    /\ Summary = << Entry("error", "found_bad", 2) >>

\* the for loop is at a file whose path is not valid unicode
AtBadPath ==
    /\ pc # "start" /\ main_result # "ErrSetup"
    /\ fileIdx \in DOMAIN file_iter /\ ~file_iter[fileIdx].path_ok

\* the warnings for skipped files
Skips == SelectSeq(log, LAMBDA e : e.msg = "skip")

(* C16: a file whose path is not valid unicode is never searched and no     *)
(* Link comes from it; the loop passes it in one step that logs a warning,  *)
(* leaves n_links and the pool as they are and goes to the next file; the   *)
(* scan is never blocked at such a file, and the run ends there only when   *)
(* the logger call of the warning itself fails.                             *)
C16_BadPathSkipped ==
    /\ [](/\ AtBadPath => (~searching /\ main_result \in {"none", "ErrLog"})
          /\ (AtBadPath /\ pc = "scan") => ENABLED SkipFile
          /\ \A i \in DOMAIN submitted :
                \E k \in DOMAIN file_iter :
                    /\ file_iter[k].path = submitted[i].source_path
                    /\ file_iter[k].path_ok
          /\ \A k \in DOMAIN file_iter :
                (~file_iter[k].path_ok /\ k < fileIdx) =>
                    Cardinality({j \in DOMAIN Skips : Skips[j].ref = k}) = 1
          /\ \A j \in DOMAIN Skips :
                Skips[j].level = "warn" /\ ~file_iter[Skips[j].ref].path_ok)
    /\ [][(AtBadPath /\ fileIdx' # fileIdx) =>
            /\ fileIdx' = fileIdx + 1
            /\ log' = Append(log, Entry("warn", "skip", fileIdx))
            /\ pc' = "scan" /\ main_result' = "none"
            /\ UNCHANGED << searching, events, n_links, submitted, queue,
                            running, chan >>]_vars

C16_Witness ==
    /\ pc = "drain"
    /\ Len(file_iter) = 3
    /\ ~file_iter[1].path_ok
    /\ file_iter[2].path = "one.md"
    /\ file_iter[3].path = "two.rs"
    /\ n_links = 3
    /\ Len(Skips) = 1

(* C17: nothing is received or reported before the for loop over the files *)
(* has ended: until then every Link sent stays in the channel, in the order *)
(* sent; a job in verify can always finish and send, however many Links     *)
(* are waiting in the channel; a receive happens only in the drain.         *)
C17_DrainAfterScan ==
    /\ [](pc \in {"start", "scan"} =>
            /\ taken = 0 /\ drained = << >> /\ Reported = << >>
            /\ chan = sent)
    /\ []((Alive /\ running # {}) => ENABLED JobFinish)
    /\ [](Len(chan) <= n_links)
    /\ [][drained' # drained =>
            (pc = "drain" /\ ScanFinished /\ n_links' = n_links
             /\ submitted' = submitted)]_vars
    /\ [][Reported' # Reported => (pc = "drain" /\ ScanFinished)]_vars

C17_Witness ==
    /\ pc = "drain"
    /\ n_links = 3
    /\ Len(chan) = 3
    /\ taken = 0
    /\ log[Len(log)].level = "debug"

(* C18: in a run in which main gets through the scan and the drain without *)
(* returning on an error no send fails: rx is alive during the whole drain, *)
(* and when the drain has ended every job has finished and every Link sent  *)
(* has been received, so no job is left to send after rx is dropped.  A     *)
(* send fails only after main has returned on an error.                     *)
C18_NoSendFails ==
    /\ pc \in {"start", "scan", "drain"} => (rx_alive /\ ~send_failed)
    /\ main_result \in {"Ok", "Exit"} =>
          /\ ~send_failed
          /\ queue = << >> /\ running = {} /\ chan = << >>
          /\ Len(sent) = n_links
          /\ drained = sent
    /\ send_failed => (~rx_alive /\ main_result \in {"ErrLog", "ErrIo"})

C18_Witness ==
    /\ pc = "exited"
    /\ main_result = "Exit"
    /\ concurrency = 2
    /\ Len(sent) = 3
    /\ sent[1].id = 2
    /\ ~send_failed

=============================================================================
